---- MODULE Spec2Model ----
(***************************************************************************)
(* Network-Usage-Monitoring-API: the data-access layer (db/crud.py), the   *)
(* request-scoped session (db/database.py) and the HTTP handlers (app.py). *)
(*                                                                         *)
(* Optional values (Python None / SQL NULL) are sequences of length <= 1:  *)
(* None is <<>>, a present value v is <<v>>.  Timestamps are ticks, with   *)
(* TicksPerDay ticks in a day; tick t lies on day t \div TicksPerDay.      *)
(* Averages are exact fractions [num, den] in lowest terms.                *)
(***************************************************************************)
EXTENDS Integers, Sequences, FiniteSets, TLC

VARIABLES lines, quota_results, speed_test_results, now, ret, requests, sessions

vars == <<lines, quota_results, speed_test_results, now, ret, requests, sessions>>

tables == <<lines, quota_results, speed_test_results>>

\* ------------------------------------------------------------------ bounds
MaxLineId == 1
MaxQuota == 2
MaxSpeed == 2
MaxDay == 1
TicksPerDay == 2
MaxReq == 2

MaxTime == (MaxDay + 1) * TicksPerDay - 1

\* ------------------------------------------------------- optional values
None == <<>>

Some(v) == <<v>>

is_not_none(x) == x # None

\* Python truthiness of an Optional[int]: None and 0 are falsy
truthy(x) == x # None /\ x[1] # 0

\* ------------------------------------------------------------- the tables
LineIds == 0 .. MaxLineId

LineNumbers == {100 + i : i \in LineIds}

LineNames == {200 + i : i \in LineIds}

Line(i, n, m) == [id |-> i, line_number |-> n, name |-> m]

Injective(f) == \A a, b \in DOMAIN f : a # b => f[a] # f[b]

\* every content of the lines table: id is the primary key, line_number
\* and name are unique
LineTables ==
  UNION {{{Line(i, n[i], m[i]) : i \in S} :
            n \in {f \in [S -> LineNumbers] : Injective(f)},
            m \in {f \in [S -> LineNames] : Injective(f)}} :
         S \in SUBSET LineIds}

OwnerIds == {0, 1}

CostVals == {None, Some(20), Some(30)}

QuotaTimes == {None, Some(1), Some(2)}

BalanceVals == {50}

DataUsedVals == {100}

QuotaFields ==
  [line_id : OwnerIds, data_used : DataUsedVals, balance : BalanceVals,
   renewal_cost : CostVals, date_time : QuotaTimes]

QuotaResults(i, f) ==
  [id |-> i, line_id |-> f.line_id, data_used |-> f.data_used,
   balance |-> f.balance, renewal_cost |-> f.renewal_cost,
   date_time |-> f.date_time]

QuotaTables(n) ==
  UNION {{{QuotaResults(i, f[i]) : i \in 1 .. k} : f \in [1 .. k -> QuotaFields]} :
         k \in 0 .. n}

\* <<ping, upload_speed, download_speed>> of a sample
SampleVals == {<<20, 50, 100>>, <<21, 53, 104>>}

SpeedFields == [line_id : OwnerIds, sample : SampleVals, date_time : 0 .. MaxTime]

SpeedTestResult(i, f) ==
  [id |-> i, line_id |-> f.line_id, ping |-> f.sample[1],
   upload_speed |-> f.sample[2], download_speed |-> f.sample[3],
   date_time |-> f.date_time]

SpeedTables(n) ==
  UNION {{{SpeedTestResult(i, f[i]) : i \in 1 .. k} : f \in [1 .. k -> SpeedFields]} :
         k \in 0 .. n}

\* the lines a set of result rows refers to (ForeignKey("lines.id"))
OwnersOf(rows) == {Line(l, 100 + l, 200 + l) : l \in {r.line_id : r \in rows}}

\* ---------------------------------------------------------- SQL helpers
Perms(S) ==
  {s \in [1 .. Cardinality(S) -> S] : \A i, j \in DOMAIN s : i # j => s[i] # s[j]}

\* session.execute(select ...): the stored rows after the statement
execute_delete(table) == {}

execute(table) == table

\* ORDER BY date_time DESC.  Rows with equal keys come in any order; NULL
\* keys sort as the lowest value (MySQL, SQLite) or the highest (PostgreSQL).
order_by_none(rows) == Perms(rows)

order_by_desc(rows) ==
  LET key(r, nullkey) == IF r.date_time = None THEN nullkey ELSE r.date_time[1]
  IN  {s \in Perms(rows) :
         \E nullkey \in {-1, MaxTime + 1} :
           \A i, j \in DOMAIN s : i < j => key(s[i], nullkey) >= key(s[j], nullkey)}

RECURSIVE func_sum(_)
func_sum(col) ==
  IF DOMAIN col = {} THEN 0
  ELSE LET x == CHOOSE x \in DOMAIN col : TRUE
       IN  col[x] + func_sum([y \in DOMAIN col \ {x} |-> col[y]])

func_count(col) == Cardinality(DOMAIN col)

RECURSIVE GCD(_, _)
GCD(a, b) == IF b = 0 THEN a ELSE GCD(b, a % b)

Frac(n, d) == [num |-> n \div GCD(n, d), den |-> d \div GCD(n, d)]

func_avg_sum(col) == Frac(func_sum(col), 1)

func_avg(col) == Frac(func_sum(col), func_count(col))

\* datetime.now().date(): the day of a tick
date(t) == t \div TicksPerDay

\* a date compared with a DateTime column is midnight of that day
midnight(d) == d * TicksPerDay

\* column.between(lo, hi) with date bounds
between(t, lo, hi) == midnight(lo) <= t /\ t <= midnight(hi)

\* ------------------------------------------------------------- db/crud.py
\* Each function yields the set of lists it may return (row order of a
\* SELECT without ORDER BY is the storage's choice).
read_lines(L, id) ==
  LET results == IF truthy(id) THEN {l \in L : l.id = id[1]} ELSE L
  IN  Perms(results)

read_quota_results(Q, line_id) ==
  LET results == IF truthy(line_id) THEN {q \in Q : q.line_id = line_id[1]} ELSE Q
  IN  order_by_desc(results)

read_speed_test_results(S, line_id) ==
  LET results == IF truthy(line_id) THEN {s \in S : s.line_id = line_id[1]} ELSE S
  IN  Perms(results)

\* the rows plotted by get_total_dataused_per_line (it returns None)
total_dataused_rows(Q) ==
  Perms({[line_id |-> l,
          total_dataused |-> func_sum([q \in {x \in Q : x.line_id = l} |-> q.data_used])] :
         l \in {q.line_id : q \in Q}})

count_with_null(Q) ==
  Perms({[renewal_cost |-> c, count |-> func_count([q \in {x \in Q : x.renewal_cost = c} |-> 1])] :
         c \in {q.renewal_cost : q \in Q}})

\* the rows plotted by get_count_per_renewal_cost (it returns None)
count_per_renewal_cost_rows(Q) ==
  LET kept == {q \in Q : q.renewal_cost # None}
  IN  Perms({[renewal_cost |-> c,
              count |-> func_count([q \in {x \in kept : x.renewal_cost = c} |-> 1])] :
             c \in {q.renewal_cost : q \in kept}})

\* the rows logged by remaining_balance_by_line (it returns None)
remaining_balance_rows(Q) ==
  Perms({[line_id |-> l,
          total_balance |-> func_sum([q \in {x \in Q : x.line_id = l} |-> q.balance])] :
         l \in {q.line_id : q \in Q}})

average_speeds_per_line(S, t, days) ==
  LET end_date == date(t)
      start_date == end_date - days
      kept == {s \in S : between(s.date_time, start_date, end_date)}
      grp(l) == {s \in kept : s.line_id = l}
  IN  Perms({[line_id |-> l,
              avg_upload_speed |-> func_avg([s \in grp(l) |-> s.upload_speed]),
              avg_download_speed |-> func_avg([s \in grp(l) |-> s.download_speed])] :
             l \in {s.line_id : s \in kept}})

average_ping_per_line(S, t, days) ==
  LET end_date == date(t)
      start_date == end_date - days
      kept == {s \in S : between(s.date_time, start_date, end_date)}
      grp(l) == {s \in kept : s.line_id = l}
  IN  Perms({[line_id |-> l, avg_ping |-> func_avg([s \in grp(l) |-> s.ping])] :
             l \in {s.line_id : s \in kept}})

\* ------------------------------------------------- calls of db/crud.py
\* ret is the outcome of the latest direct call (as test_app.py makes them):
\* outcome "list" (value is the returned list), "none" (the function
\* returned None; out is what it plotted or logged) or "raised" (the query
\* failed and the exception propagated).
IdArgs == {None} \cup {Some(i) : i \in 0 .. MaxLineId}

DayArgs == -1 .. MaxDay

NoCall == [fn |-> "", arg |-> None, outcome |-> "init", value |-> <<>>, out |-> <<>>]

Returned(fn, arg, v) == [fn |-> fn, arg |-> arg, outcome |-> "list", value |-> v, out |-> <<>>]

ReturnedNone(fn, o) == [fn |-> fn, arg |-> None, outcome |-> "none", value |-> <<>>, out |-> o]

Raised(fn, arg) == [fn |-> fn, arg |-> arg, outcome |-> "raised", value |-> <<>>, out |-> <<>>]

\* every query leaves the three tables as the statement leaves them
Executed ==
  /\ lines' = execute(lines)
  /\ quota_results' = execute(quota_results)
  /\ speed_test_results' = execute(speed_test_results)

call_read_lines ==
  /\ \E id \in IdArgs :
       \/ \E v \in read_lines(lines, id) : ret' = Returned("read_lines", id, v)
       \/ ret' = Raised("read_lines", id)
  /\ Executed
  /\ UNCHANGED <<now, requests, sessions>>

call_read_quota_results ==
  /\ \E line_id \in IdArgs :
       \/ \E v \in read_quota_results(quota_results, line_id) :
            ret' = Returned("read_quota_results", line_id, v)
       \/ ret' = Raised("read_quota_results", line_id)
  /\ Executed
  /\ UNCHANGED <<now, requests, sessions>>

call_read_speed_test_results ==
  /\ \E line_id \in IdArgs :
       \/ \E v \in read_speed_test_results(speed_test_results, line_id) :
            ret' = Returned("read_speed_test_results", line_id, v)
       \/ ret' = Raised("read_speed_test_results", line_id)
  /\ Executed
  /\ UNCHANGED <<now, requests, sessions>>

call_get_total_dataused_per_line ==
  /\ \/ \E o \in total_dataused_rows(quota_results) :
          ret' = ReturnedNone("get_total_dataused_per_line", o)
     \/ ret' = Raised("get_total_dataused_per_line", None)
  /\ Executed
  /\ UNCHANGED <<now, requests, sessions>>

call_get_count_per_renewal_cost ==
  /\ \/ \E o \in count_per_renewal_cost_rows(quota_results) :
          ret' = ReturnedNone("get_count_per_renewal_cost", o)
     \/ ret' = Raised("get_count_per_renewal_cost", None)
  /\ Executed
  /\ UNCHANGED <<now, requests, sessions>>

call_remaining_balance_by_line ==
  /\ \/ \E o \in remaining_balance_rows(quota_results) :
          ret' = ReturnedNone("remaining_balance_by_line", o)
     \/ ret' = Raised("remaining_balance_by_line", None)
  /\ Executed
  /\ UNCHANGED <<now, requests, sessions>>

call_average_speeds_per_line ==
  /\ \E days \in DayArgs :
       \/ \E v \in average_speeds_per_line(speed_test_results, now, days) :
            ret' = Returned("average_speeds_per_line", Some(days), v)
       \/ ret' = Raised("average_speeds_per_line", Some(days))
  /\ Executed
  /\ UNCHANGED <<now, requests, sessions>>

call_average_ping_per_line ==
  /\ \E days \in DayArgs :
       \/ \E v \in average_ping_per_line(speed_test_results, now, days) :
            ret' = Returned("average_ping_per_line", Some(days), v)
       \/ ret' = Raised("average_ping_per_line", Some(days))
  /\ Executed
  /\ UNCHANGED <<now, requests, sessions>>

\* ------------------------------------------------------ the HTTP requests
\* A request is idle, then ready (get_db has opened its session), returned
\* (the handler returned or raised), released (get_db's finally ran) and
\* responded.  called lists the db/crud functions the handler called and the
\* session it passed; outcome and body are what the handler gave back:
\* "list" (body is the list), "none", "coroutine" (an un-awaited coroutine
\* object) or "raised"; status and sent are the response.
Requests == 1 .. MaxReq

Idle ==
  [pc |-> "idle", path |-> "", arg |-> None, db |-> 0, called |-> <<>>,
   outcome |-> "", body |-> <<>>, status |-> 0, sent |-> <<>>]

Paths ==
  {"/lines", "/quota-results", "/speed-test-results", "/total-dataused-per-line",
   "/count-per-renewal-cost", "/remaining-balance-by-line",
   "/average-speeds-per-line", "/average-ping-per-line"}

\* the query parameter values requests carry: id / line_id, and days
ArgsOf(path) ==
  IF path = "/lines" THEN {None}
  ELSE IF path \in {"/quota-results", "/speed-test-results"} THEN {Some(1)}
  ELSE IF path \in {"/average-speeds-per-line", "/average-ping-per-line"} THEN {Some(1)}
  ELSE {None}

\* SessionLocal(): a new session, numbered by its position in sessions
SessionLocal(S) == Append(S, "open")

\* get_db up to its yield: the request's session is opened.  Requests are
\* numbered in the order they arrive.
get_db(r) ==
  /\ requests[r].pc = "idle"
  /\ \A q \in Requests : q < r => requests[q].pc # "idle"
  /\ \E path \in Paths : \E arg \in ArgsOf(path) :
       requests' = [requests EXCEPT ![r] =
                      [@ EXCEPT !.pc = "ready", !.path = path, !.arg = arg,
                                !.db = Len(sessions) + 1]]
  /\ sessions' = SessionLocal(sessions)
  /\ UNCHANGED <<lines, quota_results, speed_test_results, now, ret>>

\* a handler that returns what the db/crud function fn returns, or lets
\* its exception through
Returns(r, fn, results) ==
  /\ requests[r].pc = "ready"
  /\ \/ \E v \in results :
          requests' = [requests EXCEPT ![r] =
                         [@ EXCEPT !.pc = "returned", !.outcome = "list", !.body = v,
                                   !.called = Append(@, [fn |-> fn, db |-> requests[r].db])]]
     \/ requests' = [requests EXCEPT ![r] =
                       [@ EXCEPT !.pc = "returned", !.outcome = "raised",
                                 !.called = Append(@, [fn |-> fn, db |-> requests[r].db])]]
  /\ Executed
  /\ UNCHANGED <<now, ret, sessions>>

get_lines(r) ==
  /\ requests[r].path = "/lines"
  /\ Returns(r, "read_lines", read_lines(lines, requests[r].arg))

get_quota_results(r) ==
  /\ requests[r].path = "/quota-results"
  /\ Returns(r, "read_quota_results", read_quota_results(quota_results, requests[r].arg))

get_speed_test_results(r) ==
  /\ requests[r].path = "/speed-test-results"
  /\ Returns(r, "read_speed_test_results",
             read_speed_test_results(speed_test_results, requests[r].arg))

\* app.py defines a handler named get_total_dataused_per_line after
\* importing the db/crud function of that name: inside the handler the name
\* is the handler itself, and calling it makes a coroutine object that is
\* returned without being awaited.  No db/crud function runs.
app_get_total_dataused_per_line(r) ==
  /\ requests[r].path = "/total-dataused-per-line"
  /\ requests[r].pc = "ready"
  /\ requests' = [requests EXCEPT ![r] = [@ EXCEPT !.pc = "returned", !.outcome = "coroutine"]]
  /\ UNCHANGED <<lines, quota_results, speed_test_results, now, ret, sessions>>

\* the same shadowing, for get_count_per_renewal_cost
app_get_count_per_renewal_cost(r) ==
  /\ requests[r].path = "/count-per-renewal-cost"
  /\ requests[r].pc = "ready"
  /\ requests' = [requests EXCEPT ![r] = [@ EXCEPT !.pc = "returned", !.outcome = "coroutine"]]
  /\ UNCHANGED <<lines, quota_results, speed_test_results, now, ret, sessions>>

\* remaining_balance_by_line runs its query, logs the rows and returns None
get_remaining_balance_by_line(r) ==
  /\ requests[r].path = "/remaining-balance-by-line"
  /\ requests[r].pc = "ready"
  /\ \/ /\ remaining_balance_rows(quota_results) # {}
        /\ requests' = [requests EXCEPT ![r] =
                          [@ EXCEPT !.pc = "returned", !.outcome = "none",
                                    !.called = Append(@, [fn |-> "remaining_balance_by_line",
                                                          db |-> requests[r].db])]]
     \/ requests' = [requests EXCEPT ![r] =
                       [@ EXCEPT !.pc = "returned", !.outcome = "raised",
                                 !.called = Append(@, [fn |-> "remaining_balance_by_line",
                                                       db |-> requests[r].db])]]
  /\ Executed
  /\ UNCHANGED <<now, ret, sessions>>

get_average_speeds_per_line(r) ==
  /\ requests[r].path = "/average-speeds-per-line"
  /\ Returns(r, "average_speeds_per_line",
             average_speeds_per_line(speed_test_results, now, requests[r].arg[1]))

get_average_ping_per_line(r) ==
  /\ requests[r].path = "/average-ping-per-line"
  /\ Returns(r, "average_ping_per_line",
             average_ping_per_line(speed_test_results, now, requests[r].arg[1]))

\* get_db after its yield: try ... finally: db.close()
close_on_success(S, db, outcome) ==
  IF outcome = "raised" THEN S ELSE [S EXCEPT ![db] = "closed"]

finally_close(S, db, outcome) == [S EXCEPT ![db] = "closed"]

get_db_finally(r) ==
  /\ requests[r].pc = "returned"
  /\ sessions' = finally_close(sessions, requests[r].db, requests[r].outcome)
  /\ requests' = [requests EXCEPT ![r].pc = "released"]
  /\ UNCHANGED <<lines, quota_results, speed_test_results, now, ret>>

\* the response: a returned list is serialised (200); None or a coroutine
\* object fails the response_model validation, and an exception of the
\* handler is an internal server error (500)
response_status(outcome) == IF outcome = "list" THEN 200 ELSE 500

respond(r) ==
  /\ requests[r].pc = "released"
  /\ requests' = [requests EXCEPT ![r] =
                    [@ EXCEPT !.pc = "responded",
                              !.status = response_status(requests[r].outcome),
                              !.sent = IF response_status(requests[r].outcome) = 200
                                       THEN requests[r].body ELSE <<>>]]
  /\ UNCHANGED <<lines, quota_results, speed_test_results, now, ret, sessions>>

\* the tables of the requests: those of the test fixture, with a second
\* quota result of the line
ApiInit ==
  /\ lines = {Line(1, 101, 201)}
  /\ quota_results =
       {QuotaResults(1, [line_id |-> 1, data_used |-> 100, balance |-> 50,
                         renewal_cost |-> Some(20), date_time |-> Some(1)]),
        QuotaResults(2, [line_id |-> 1, data_used |-> 100, balance |-> 50,
                         renewal_cost |-> None, date_time |-> Some(2)])}
  /\ speed_test_results =
       {SpeedTestResult(1, [line_id |-> 1, sample |-> <<20, 50, 100>>, date_time |-> 0])}
  /\ now = MaxTime
  /\ ret = NoCall
  /\ requests = [r \in Requests |-> Idle]
  /\ sessions = <<>>

Handler(r) ==
  \/ get_lines(r)
  \/ get_quota_results(r)
  \/ get_speed_test_results(r)
  \/ app_get_total_dataused_per_line(r)
  \/ app_get_count_per_renewal_cost(r)
  \/ get_remaining_balance_by_line(r)
  \/ get_average_speeds_per_line(r)
  \/ get_average_ping_per_line(r)

ApiNext ==
  \E r \in Requests :
    \/ get_db(r)
    \/ Handler(r)
    \/ get_db_finally(r)
    \/ respond(r)

ApiSpec == ApiInit /\ [][ApiNext]_vars

\* a request that has its session is served to the end: the handler runs,
\* the dependency is left and the response is sent
FairApiSpec ==
  /\ ApiSpec
  /\ \A r \in Requests :
       WF_vars(Handler(r)) /\ WF_vars(get_db_finally(r)) /\ WF_vars(respond(r))

\* ------------------------------------------------------------ data-access
\* The tables hold any content the schema allows; one table varies at a
\* time, the lines of the owners exist (foreign key), and now is the clock
\* reading at the time of the call.
InitLines ==
  /\ lines \in LineTables
  /\ quota_results = {}
  /\ speed_test_results = {}
  /\ now = 0

InitQuota ==
  /\ quota_results \in QuotaTables(MaxQuota)
  /\ lines = OwnersOf(quota_results)
  /\ speed_test_results = {}
  /\ now = 0

InitSpeed ==
  /\ speed_test_results \in SpeedTables(MaxSpeed)
  /\ lines = OwnersOf(speed_test_results)
  /\ quota_results = {}
  /\ now \in 0 .. MaxTime

Init ==
  /\ InitLines \/ InitQuota \/ InitSpeed
  /\ ret = NoCall
  /\ requests = [r \in Requests |-> Idle]
  /\ sessions = <<>>

Next ==
  \/ call_read_lines
  \/ call_read_quota_results
  \/ call_read_speed_test_results
  \/ call_get_total_dataused_per_line
  \/ call_get_count_per_renewal_cost
  \/ call_remaining_balance_by_line
  \/ call_average_speeds_per_line
  \/ call_average_ping_per_line

Spec == Init /\ [][Next]_vars

\* ================================================================ claims
Range(s) == {s[i] : i \in DOMAIN s}

RECURSIVE SeqSum(_)
SeqSum(s) == IF s = <<>> THEN 0 ELSE Head(s) + SeqSum(Tail(s))

\* the sum of field values over a set of rows, given as a function row -> value
Total(col) == SeqSum([i \in 1 .. Cardinality(DOMAIN col) |->
                        col[(CHOOSE p \in Perms(DOMAIN col) : TRUE)[i]]])

\* C1: for every stored line L (also one whose id is 0), read_lines() with
\* no id returns a list containing L, and read_lines(id=L.id) returns
\* exactly one record, equal to L in id, line_number and name.
ClaimC1 ==
  (ret.fn = "read_lines" /\ ret.outcome = "list") =>
    /\ ret.arg = None => \A L \in lines : L \in Range(ret.value)
    /\ \A L \in lines : ret.arg = Some(L.id) => ret.value = <<L>>

\* C2: for every line id X that owns stored quota results (also X = 0),
\* read_quota_results(line_id=X) returns exactly the quota results of line
\* X, each once, and none of another line.
ClaimC2 ==
  (ret.fn = "read_quota_results" /\ ret.outcome = "list") =>
    \A X \in {q.line_id : q \in quota_results} :
      ret.arg = Some(X) =>
        /\ Range(ret.value) = {q \in quota_results : q.line_id = X}
        /\ Len(ret.value) = Cardinality({q \in quota_results : q.line_id = X})

\* C3: the list read_quota_results returns is ordered by timestamp
\* descending, with or without a line_id filter: of two returned records
\* that carry a timestamp, the earlier one's is greater than or equal to the
\* later one's.
TheoremC3 ==
  (ret.fn = "read_quota_results" /\ ret.outcome = "list") =>
    \A i, j \in DOMAIN ret.value :
      (i < j /\ ret.value[i].date_time # None /\ ret.value[j].date_time # None) =>
        ret.value[i].date_time[1] >= ret.value[j].date_time[1]

WitnessC3 ==
  /\ ret.fn = "read_quota_results" /\ ret.outcome = "list"
  /\ ret.arg = Some(1)
  /\ Len(ret.value) = 2
  /\ ret.value[1].date_time # None /\ ret.value[2].date_time # None
  /\ ret.value[1].date_time[1] > ret.value[2].date_time[1]
  /\ ret.value[1].id < ret.value[2].id

\* C4: for average_speeds_per_line(days=D) and average_ping_per_line(days=D)
\* with D >= 0, a line whose only sample is timestamped now - d days (d >= 0,
\* d = 0 being a sample taken now) has an entry in the result iff d <= D.
ClaimC4 ==
  (ret.fn \in {"average_speeds_per_line", "average_ping_per_line"}
     /\ ret.outcome = "list" /\ ret.arg[1] >= 0) =>
    \A l \in OwnerIds : \A d \in 0 .. MaxDay :
      (\E s \in speed_test_results :
          /\ {x \in speed_test_results : x.line_id = l} = {s}
          /\ s.date_time = now - d * TicksPerDay) =>
        ((\E i \in DOMAIN ret.value : ret.value[i].line_id = l) <=> d <= ret.arg[1])

\* the samples of line l from midnight of (today - D) to midnight of today
InWindow(l, D) ==
  {s \in speed_test_results :
     /\ s.line_id = l
     /\ ((now \div TicksPerDay) - D) * TicksPerDay <= s.date_time
     /\ s.date_time <= (now \div TicksPerDay) * TicksPerDay}

IsMean(f, col) ==
  /\ f.den > 0
  /\ f.num * Cardinality(DOMAIN col) = Total(col) * f.den
  /\ \A x \in DOMAIN col : Cardinality(DOMAIN col) = 1 => f = [num |-> col[x], den |-> 1]

TheoremC8 ==
  (ret.fn = "get_count_per_renewal_cost" /\ ret.outcome = "none") =>
    LET costs == {q.renewal_cost : q \in quota_results} \ {None}
    IN  /\ Len(ret.out) = Cardinality(costs)
        /\ \A i \in DOMAIN ret.out : ret.out[i].renewal_cost # None
        /\ \A c \in costs :
             \E i \in DOMAIN ret.out :
               /\ ret.out[i].renewal_cost = c
               /\ ret.out[i].count =
                    Cardinality({q \in quota_results : q.renewal_cost = c})

WitnessC8 ==
  /\ ret.fn = "get_count_per_renewal_cost" /\ ret.outcome = "none"
  /\ \E q \in quota_results : q.renewal_cost = None
  /\ \E i \in DOMAIN ret.out : ret.out[i].count = 1

\* C10: the system only reads: whatever data-access function is called, with
\* whatever argument, and whether it returns or raises, the stored Line,
\* QuotaResult and SpeedTestResult rows stay as they were.
TheoremC10 ==
  [][/\ lines' = lines
     /\ quota_results' = quota_results
     /\ speed_test_results' = speed_test_results]_vars

WitnessC10 ==
  /\ ret.outcome = "raised"
  /\ quota_results # {}

\* the db/crud function behind each endpoint
CrudOf(path) ==
  CASE path = "/lines" -> "read_lines"
    [] path = "/quota-results" -> "read_quota_results"
    [] path = "/speed-test-results" -> "read_speed_test_results"
    [] path = "/total-dataused-per-line" -> "get_total_dataused_per_line"
    [] path = "/count-per-renewal-cost" -> "get_count_per_renewal_cost"
    [] path = "/remaining-balance-by-line" -> "remaining_balance_by_line"
    [] path = "/average-speeds-per-line" -> "average_speeds_per_line"
    [] path = "/average-ping-per-line" -> "average_ping_per_line"
    [] OTHER -> ""

\* C6: on each of the eight endpoints a request opens a session, calls the
\* corresponding db/crud function exactly once with that session, closes
\* the session and then responds with that function's result; the handlers
\* of /total-dataused-per-line and /count-per-renewal-cost call
\* get_total_dataused_per_line and get_count_per_renewal_cost of db/crud.
ClaimC6 ==
  \A r \in Requests :
    requests[r].pc = "responded" =>
      /\ requests[r].called = <<[fn |-> CrudOf(requests[r].path), db |-> requests[r].db]>>
      /\ sessions[requests[r].db] = "closed"
      /\ requests[r].outcome # "raised" =>
           (requests[r].status = 200 /\ requests[r].sent = requests[r].body)

\* C7: GET /remaining-balance-by-line returns a list with one
\* {line_id, total_balance} record per line that owns a quota result,
\* total_balance being the sum of balance over the line's quota results.
ClaimC7 ==
  \A r \in Requests :
    (requests[r].pc = "responded" /\ requests[r].path = "/remaining-balance-by-line"
       /\ requests[r].outcome # "raised") =>
      /\ requests[r].status = 200
      /\ Len(requests[r].sent) = Cardinality({q.line_id : q \in quota_results})
      /\ Range(requests[r].sent) =
           {[line_id |-> l,
             total_balance |-> Total([q \in {x \in quota_results : x.line_id = l} |-> q.balance])] :
            l \in {q.line_id : q \in quota_results}}

SessionOpened(r) == requests[r].db # 0

SessionClosed(r) == requests[r].db # 0 /\ sessions[requests[r].db] = "closed"

\* C9: every request gets a session of its own, opened for it, and that
\* session is closed at the end of the request on every exit path: whether
\* the data-access function returns or raises the session is eventually
\* closed, no request finishes with its session open, and under any
\* interleaving no session is used by two requests.
TheoremC9 ==
  /\ [](\A r \in Requests :
          /\ SessionOpened(r) => requests[r].db \in DOMAIN sessions
          /\ requests[r].pc = "responded" => SessionClosed(r)
          /\ \A i \in DOMAIN requests[r].called :
               /\ requests[r].called[i].db = requests[r].db
               /\ \A q \in Requests \ {r} : requests[q].db # requests[r].called[i].db)
  /\ \A r \in Requests : SessionOpened(r) ~> SessionClosed(r)

WitnessC9 ==
  /\ \E r, q \in Requests :
       /\ r # q
       /\ requests[r].outcome = "raised" /\ SessionClosed(r)
       /\ requests[q].outcome = "list" /\ SessionClosed(q)
       /\ requests[q].db < requests[r].db /\ requests[q].pc = "released"

\* C11: average_speeds_per_line and average_ping_per_line require days to be
\* a non-negative integer: a call with days < 0 ends in an error and never
\* returns a result list.
ClaimC11 ==
  (ret.fn \in {"average_speeds_per_line", "average_ping_per_line"} /\ ret.arg[1] < 0) =>
    ret.outcome = "raised"

\* the stored rows a call of one of the three read functions selects from
TableOf(fn) ==
  CASE fn = "read_lines" -> lines
    [] fn = "read_quota_results" -> quota_results
    [] fn = "read_speed_test_results" -> speed_test_results
    [] OTHER -> {}

\* C12: in read_lines, read_quota_results and read_speed_test_results the
\* optional filter is tested by truthiness: called with filter value 0 the
\* function returns what it returns with no filter, all the rows of its
\* table, also when rows with id / line_id 0 and rows with other ids exist.
TheoremC12 ==
  (ret.fn \in {"read_lines", "read_quota_results", "read_speed_test_results"}
     /\ ret.outcome = "list" /\ ret.arg \in {None, Some(0)}) =>
    /\ Range(ret.value) = TableOf(ret.fn)
    /\ Len(ret.value) = Cardinality(TableOf(ret.fn))

WitnessC12 ==
  /\ ret.fn = "read_speed_test_results" /\ ret.outcome = "list"
  /\ ret.arg = Some(0)
  /\ \E s, t \in speed_test_results : s.line_id = 0 /\ t.line_id = 1
  /\ Len(ret.value) = 2

====
